---- MODULE Spec2Model ----
(***************************************************************************)
(* Task dispatch, session resumption, block detection and approval state   *)
(* of BaseAgent (src/shared/base_agent.py).                                *)
(*                                                                         *)
(* Text is a sequence of one-character strings.  A Python value is a       *)
(* record [t, v]: t is the Python type and v the payload (the characters   *)
(* of a str, the items of a list, <<>> for None and for a dict).           *)
(***************************************************************************)
EXTENDS Integers, Sequences, FiniteSets, TLC

\* ------------------------------------------------------------------ bounds
\* Calls (run_task + resume_task) issued in one behaviour of Spec.
MaxCalls == 2
\* Pieces concatenated into one engine output text in SpecClassify.
MaxPieces == 4
\* request_approval calls made in one behaviour of SpecApproval.
MaxApprovals == 2
\* Last second the wall clock reaches in SpecApproval (it starts in second 0).
MaxSeconds == 1
\* deploy_containers calls made in one behaviour of SpecDeploy.
MaxDeploys == 2

\* ------------------------------------------------------------ Python values
PyStr(s) == [t |-> "str", v |-> s]
PyNone == [t |-> "none", v |-> <<>>]
PyList(items) == [t |-> "list", v |-> items]
PyDict == [t |-> "dict", v |-> <<>>]

\* str(e) of an exception: an opaque one-token text naming the exception.
ExcText(name) == PyStr(<<name>>)

\* ------------------------------------------------------------------- text
\* BLOCKED_MARKER = "AGENT_BLOCKED:"
BLOCKED_MARKER == <<"A", "G", "E", "N", "T", "_", "B", "L", "O", "C", "K", "E", "D", ":">>

\* The fixed output text of a timed-out call.
TimedOutText == <<"T", "a", "s", "k", " ", "t", "i", "m", "e", "d", " ", "o", "u", "t">>

\* Characters str.strip() removes (the whitespace of the model's alphabet).
IsSpace(c) == c \in {" ", "\t", "\n", "\r"}

\* s[a:] with a 0-based offset, as a Python slice.
SliceFrom(s, a) == SubSeq(s, a + 1, Len(s))

\* m occurs in s at 0-based offset i.
OccursAt(s, m, i) ==
    /\ i >= 0
    /\ i + Len(m) <= Len(s)
    /\ SubSeq(s, i + 1, i + Len(m)) = m

\* `m in s` for two str.
StrContains(s, m) == \E i \in 0..Len(s) : OccursAt(s, m, i)

\* s.find(m): the lowest offset at which m occurs, -1 when it does not.
Find(s, m) ==
    IF StrContains(s, m)
    THEN CHOOSE i \in 0..Len(s) :
            /\ OccursAt(s, m, i)
            /\ \A j \in 0..(i - 1) : ~OccursAt(s, m, j)
    ELSE -1

\* s.rfind(m): the highest offset at which m occurs, -1 when it does not.
RFind(s, m) ==
    IF StrContains(s, m)
    THEN CHOOSE i \in 0..Len(s) :
            /\ OccursAt(s, m, i)
            /\ \A j \in (i + 1)..Len(s) : ~OccursAt(s, m, j)
    ELSE -1

\* s.lstrip() and s.rstrip().
RECURSIVE LStrip(_)
LStrip(s) == IF s # <<>> /\ IsSpace(Head(s)) THEN LStrip(Tail(s)) ELSE s

RECURSIVE RStrip(_)
RStrip(s) ==
    IF s # <<>> /\ IsSpace(s[Len(s)]) THEN RStrip(SubSeq(s, 1, Len(s) - 1)) ELSE s

\* s.strip()
Strip(s) == RStrip(LStrip(s))

\* ------------------------------------------------------------------- JSON
\* The JSON texts an engine output of the model can be: an envelope with a
\* text result, an envelope with a null result, an empty object, an empty
\* array and null.  Every other text of the model's inputs is not JSON.
EnvelopeOpen == <<"{", "\"", "r", "e", "s", "u", "l", "t", "\"", ":", " ", "\"">>
EnvelopeClose == <<"\"", "}">>
EnvelopeNull == <<"{", "\"", "r", "e", "s", "u", "l", "t", "\"", ":", " ", "n", "u", "l", "l", "}">>
EmptyObject == <<"{", "}">>
EmptyArray == <<"[", "]">>
NullText == <<"n", "u", "l", "l">>

\* The characters between the quotes of a JSON string written without escapes.
IsPlainText(s) == \A i \in 1..Len(s) : s[i] \notin {"\"", "\\", "\t", "\n", "\r"}

\* s is {"result": "<plain text>"}.
IsEnvelope(s) ==
    /\ Len(s) >= Len(EnvelopeOpen) + Len(EnvelopeClose)
    /\ SubSeq(s, 1, Len(EnvelopeOpen)) = EnvelopeOpen
    /\ SubSeq(s, Len(s) - Len(EnvelopeClose) + 1, Len(s)) = EnvelopeClose
    /\ IsPlainText(SubSeq(s, Len(EnvelopeOpen) + 1, Len(s) - Len(EnvelopeClose)))

EnvelopeText(s) == SubSeq(s, Len(EnvelopeOpen) + 1, Len(s) - Len(EnvelopeClose))

\* json.loads(s): ok is FALSE on JSONDecodeError; otherwise val is the value
\* and, for an object, has_result / result are its "result" member.
JsonLoads(s) ==
    LET b == Strip(s) IN
    CASE IsEnvelope(b) ->
            [ok |-> TRUE, val |-> PyDict, has_result |-> TRUE,
             result |-> PyStr(EnvelopeText(b))]
      [] b = EnvelopeNull ->
            [ok |-> TRUE, val |-> PyDict, has_result |-> TRUE, result |-> PyNone]
      [] b = EmptyObject ->
            [ok |-> TRUE, val |-> PyDict, has_result |-> FALSE, result |-> PyNone]
      [] b = EmptyArray ->
            [ok |-> TRUE, val |-> PyList(<<>>), has_result |-> FALSE, result |-> PyNone]
      [] b = NullText ->
            [ok |-> TRUE, val |-> PyNone, has_result |-> FALSE, result |-> PyNone]
      [] OTHER ->
            [ok |-> FALSE, val |-> PyNone, has_result |-> FALSE, result |-> PyNone]

\* --------------------------------------------------- the body of a call
\* The parse that leaves output_text empty when stdout is not JSON.
ParseOutputNoFallback(stdout) ==
    IF stdout = <<>>
    THEN [exc |-> "", text |-> PyStr(<<>>)]
    ELSE LET j == JsonLoads(stdout) IN
         IF ~j.ok
         THEN [exc |-> "", text |-> PyStr(<<>>)]
         ELSE IF j.val.t # "dict"
         THEN [exc |-> "AttributeError", text |-> PyStr(<<>>)]
         ELSE [exc |-> "", text |-> IF j.has_result THEN j.result ELSE PyStr(stdout)]

\* The parse of the engine's stdout.  exc is "" or the exception raised;
\* text is output_text.
ParseOutput(stdout) ==
    IF stdout = <<>>
    THEN [exc |-> "", text |-> PyStr(<<>>)]
    ELSE LET j == JsonLoads(stdout) IN
         IF ~j.ok
         THEN [exc |-> "", text |-> PyStr(stdout)]
         ELSE IF j.val.t # "dict"
         THEN [exc |-> "AttributeError", text |-> PyStr(<<>>)]
         ELSE [exc |-> "", text |-> IF j.has_result THEN j.result ELSE PyStr(stdout)]

\* if result.returncode != 0: output_text = result.stderr or output_text
FailureText(returncode, stderr, output_text) ==
    IF returncode # 0
    THEN (IF stderr # <<>> THEN PyStr(stderr) ELSE output_text)
    ELSE output_text

\* The marker test matching on the marker's first word alone.
MarkerInLoose(output_text) ==
    IF output_text.t = "str"
    THEN [exc |-> "", found |-> StrContains(output_text.v, <<"A", "G", "E", "N", "T">>)]
    ELSE [exc |-> "TypeError", found |-> FALSE]

\* BLOCKED_MARKER in output_text.  exc is "" or the exception raised
\* (output_text is a str, or None from an envelope with a null result).
MarkerIn(output_text) ==
    IF output_text.t = "str"
    THEN [exc |-> "", found |-> StrContains(output_text.v, BLOCKED_MARKER)]
    ELSE [exc |-> "TypeError", found |-> FALSE]

\* The question taken without .strip().
ExtractQuestionUntrimmed(text) ==
    SliceFrom(text, RFind(text, BLOCKED_MARKER) + Len(BLOCKED_MARKER))

\* output_text[marker_pos + len(BLOCKED_MARKER):].strip(), marker_pos the rfind.
ExtractQuestion(text) ==
    Strip(SliceFrom(text, RFind(text, BLOCKED_MARKER) + Len(BLOCKED_MARKER)))

\* The block check that reports a block only when a question follows.
DetectBlockNonEmpty(success, output_text) ==
    IF success /\ output_text.t = "str" /\ StrContains(output_text.v, BLOCKED_MARKER)
               /\ ExtractQuestion(output_text.v) # <<>>
    THEN [exc |-> "", blocked |-> TRUE, blocker_question |-> ExtractQuestion(output_text.v)]
    ELSE [exc |-> IF success THEN MarkerIn(output_text).exc ELSE "",
          blocked |-> FALSE, blocker_question |-> <<>>]

\* A block check that looks for the marker whatever the exit code was.
DetectBlockAnyExit(success, output_text) ==
    LET m == MarkerIn(output_text) IN
    IF m.exc # ""
    THEN [exc |-> m.exc, blocked |-> FALSE, blocker_question |-> <<>>]
    ELSE IF ~m.found
    THEN [exc |-> "", blocked |-> FALSE, blocker_question |-> <<>>]
    ELSE [exc |-> "", blocked |-> TRUE,
          blocker_question |-> ExtractQuestion(output_text.v)]

\* The block check of a completed call: exc is "" or the exception raised.
DetectBlock(success, output_text) ==
    IF ~success
    THEN [exc |-> "", blocked |-> FALSE, blocker_question |-> <<>>]
    ELSE LET m == MarkerIn(output_text) IN
         IF m.exc # ""
         THEN [exc |-> m.exc, blocked |-> FALSE, blocker_question |-> <<>>]
         ELSE IF ~m.found
         THEN [exc |-> "", blocked |-> FALSE, blocker_question |-> <<>>]
         ELSE [exc |-> "", blocked |-> TRUE,
               blocker_question |-> ExtractQuestion(output_text.v)]

\* ------------------------------------------------------------- TaskResult
\* session_id of a TaskResult built without one (the dataclass default None).
NoSession == 0

\* TaskResult(success, output, session_id, blocked, blocker_question);
\* files_changed is always [] and needs_approval always False in these calls.
TaskResult(success, output, session_id, blocked, blocker_question) ==
    [success |-> success, output |-> output, session_id |-> session_id,
     blocked |-> blocked, blocker_question |-> blocker_question]

\* The result of a call whose engine exited.
CompletedResult(success, output_text, session_id, blocked, blocker_question) ==
    TaskResult(success /\ ~blocked, output_text, session_id, blocked, blocker_question)

\* The timeout result built without session_id.
TimeoutResultNoSession(session_id) ==
    TaskResult(FALSE, PyStr(TimedOutText), NoSession, FALSE, <<>>)

\* except subprocess.TimeoutExpired: the result returned.
TimeoutResult(session_id) ==
    TaskResult(FALSE, PyStr(TimedOutText), session_id, FALSE, <<>>)

\* except Exception as e: the result returned, output = str(e).
ErrorResult(session_id, text) ==
    TaskResult(FALSE, text, session_id, FALSE, <<>>)

\* One notification: Notifier.notify(message, level).
Note(level, event) == [level |-> level, event |-> event]

\* output_text[:100] in the failure notification raises on None.
FailedNoteExc(output_text) == IF output_text.t = "str" THEN "" ELSE "TypeError"

\* A final notification that reports a failed task at the default level.
FinalNoteQuietFailure(success, blocked, output_text) ==
    IF blocked THEN [exc |-> "", note |-> Note("info", "waiting")]
    ELSE IF success THEN [exc |-> "", note |-> Note("info", "completed")]
    ELSE [exc |-> FailedNoteExc(output_text), note |-> Note("info", "failed")]

\* The notification after the history append: its level and event, and the
\* exception building its message raises ("" when none).
FinalNote(success, blocked, output_text) ==
    IF blocked THEN [exc |-> "", note |-> Note("info", "waiting")]
    ELSE IF success THEN [exc |-> "", note |-> Note("info", "completed")]
    ELSE [exc |-> FailedNoteExc(output_text), note |-> Note("error", "failed")]

\* What a call does once subprocess.run has returned: `returned` is the
\* TaskResult handed to the caller, `appended` the results appended to
\* task_history (none or one), `notes` the notifications sent, in order,
\* `proc` the state the engine process is left in.
\* An exception raised on the way is caught by `except Exception`.
Complete(session_id, returncode, stdout, stderr) ==
    LET p == ParseOutput(stdout)
        output_text == FailureText(returncode, stderr, p.text)
        success == returncode = 0
        d == DetectBlock(success, output_text)
        task_result == CompletedResult(success, output_text, session_id,
                                       d.blocked, d.blocker_question)
        f == FinalNote(success, d.blocked, output_text)
        blockNote == IF d.blocked THEN <<Note("approval", "blocked")>> ELSE <<>>
    IN  IF p.exc # ""
        THEN [returned |-> ErrorResult(session_id, ExcText(p.exc)),
              appended |-> <<>>, proc |-> "exited",
              notes |-> <<Note("error", "error")>>]
        ELSE IF d.exc # ""
        THEN [returned |-> ErrorResult(session_id, ExcText(d.exc)),
              appended |-> <<>>, proc |-> "exited",
              notes |-> <<Note("error", "error")>>]
        ELSE IF f.exc # ""
        THEN [returned |-> ErrorResult(session_id, ExcText(f.exc)),
              appended |-> <<task_result>>, proc |-> "exited",
              notes |-> blockNote \o <<Note("error", "error")>>]
        ELSE [returned |-> task_result,
              appended |-> <<task_result>>, proc |-> "exited",
              notes |-> blockNote \o <<f.note>>]

\* The timeout path of a wait that leaves the engine process alive.
TimedOutNoKill(session_id) ==
    [returned |-> TimeoutResult(session_id),
     appended |-> <<>>, proc |-> "running",
     notes |-> <<Note("error", "timeout")>>]

\* What a call does when subprocess.run raises TimeoutExpired, which it
\* does after killing and reaping the engine process.
TimedOut(session_id) ==
    [returned |-> TimeoutResult(session_id),
     appended |-> <<>>, proc |-> "killed",
     notes |-> <<Note("error", "timeout")>>]

\* A launch failure reported with a fixed text in place of str(e).
LaunchFailedFixedText(session_id, text) ==
    [returned |-> ErrorResult(session_id, PyStr(TimedOutText)),
     appended |-> <<>>, proc |-> "none",
     notes |-> <<Note("error", "error")>>]

\* What a call does when subprocess.run raises on launch (text = str(e)).
LaunchFailed(session_id, text) ==
    [returned |-> ErrorResult(session_id, text),
     appended |-> <<>>, proc |-> "none",
     notes |-> <<Note("error", "error")>>]

\* ----------------------------------------------------------------- agents
\* Two agent instances: the supervisor, with the default project root, and
\* a worker configured with a project.
Agents == {"shelly", "quinn"}

ShellyName == <<"S", "h", "e", "l", "l", "y">>
QuinnName == <<"Q", "u", "i", "n", "n">>

\* A project_root is the sequence of its path components; "." is the default.
DefaultRoot == <<".">>

\* Path(project_root).expanduser().resolve().name: the last component.
PathName(root) == root[Len(root)]

\* BaseConfig of each agent: name, project_root ("." is the default).
Config(a) ==
    IF a = "shelly"
    THEN [name |-> ShellyName, project_root |-> DefaultRoot]
    ELSE [name |-> QuinnName, project_root |-> <<"app">>]

\* str.lower() on the letters agent names are written with.
LowerChar(c) ==
    CASE c = "S" -> "s" [] c = "H" -> "h" [] c = "E" -> "e" [] c = "L" -> "l"
      [] c = "Y" -> "y" [] c = "Q" -> "q" [] c = "U" -> "u" [] c = "I" -> "i"
      [] c = "N" -> "n" [] OTHER -> c

Lower(s) == [i \in 1..Len(s) |-> LowerChar(s[i])]

\* What importing and calling mcp_entity_server.permissions does in this
\* process: the module is absent (ImportError), loads and works, raises
\* another exception while loading, or loads and its functions raise.
PolicyStates == {"absent", "ok", "load_error", "func_error"}

\* The fallback flags: ["--permission-mode", "acceptEdits"].
FallbackFlags == <<"--permission-mode", "acceptEdits">>

\* A resolver that compares the agent name with "shelly" as written.
PermissionFlagsCaseSensitive(config, pol) ==
    LET is_supervisor == config.name = <<"s", "h", "e", "l", "l", "y">>
        project == IF config.project_root # DefaultRoot
                   THEN PathName(config.project_root) ELSE "None"
        profile == IF is_supervisor THEN "supervisor" ELSE "worker"
    IN  CASE pol = "absent" -> [exc |-> "", flags |-> FallbackFlags]
          [] pol = "load_error" -> [exc |-> "Exception", flags |-> <<>>]
          [] pol = "func_error" -> [exc |-> "Exception", flags |-> <<>>]
          [] OTHER -> [exc |-> "", flags |-> <<"policy", profile, project>>]

\* _get_permission_flags on a config: exc is "" or the exception that
\* leaves it; with the module loaded the flags are build_cli_flags of the
\* profile chosen and the project it was given.
PermissionFlags(config, pol) ==
    LET is_supervisor == Lower(config.name) = <<"s", "h", "e", "l", "l", "y">>
        project == IF config.project_root # DefaultRoot
                   THEN PathName(config.project_root) ELSE "None"
        profile == IF is_supervisor THEN "supervisor" ELSE "worker"
    IN  CASE pol = "absent" -> [exc |-> "", flags |-> FallbackFlags]
          [] pol = "load_error" -> [exc |-> "Exception", flags |-> <<>>]
          [] pol = "func_error" -> [exc |-> "Exception", flags |-> <<>>]
          [] OTHER -> [exc |-> "", flags |-> <<"policy", profile, project>>]

\* _get_permission_flags of agent a.
GetPermissionFlags(a, pol) == PermissionFlags(Config(a), pol)

\* -------------------------------------------------------------- approvals
\* A datetime: its second, and us = 0 when the microsecond field is zero,
\* 1 when it is not.
Time(sec, us) == [sec |-> sec, us |-> us]

\* The next reading the clock can give after t.
Succ(t) ==
    IF t.us = 0 THEN Time(t.sec, 1)
    ELSE IF t.sec < MaxSeconds THEN Time(t.sec + 1, 0)
    ELSE t

\* What datetime.now() can return shortly after a reading of t.
Now(t) == {t, Succ(t)}

\* strftime('%Y%m%d_%H%M%S'): the reading cut to whole seconds.
StrfTime(t) == t.sec

\* f"approval_{...}"
TaskId(t) == [prefix |-> "approval_", stamp |-> StrfTime(t)]

\* datetime.isoformat(): the fraction is left out when the microsecond is 0.
IsoFormat(t) ==
    [seconds |-> t.sec, fraction |-> IF t.us = 0 THEN <<>> ELSE <<t.us>>]

\* options = ["Approve", "Reject", "Modify"]
DefaultOptions == <<"Approve", "Reject", "Modify">>

\* if options is None: options = [...]; any other value is kept.
EffectiveOptions(options) ==
    IF options.t = "none" THEN DefaultOptions ELSE options.v

ApprovalRequest(task_id, description, details, options, created_at) ==
    [task_id |-> task_id, description |-> description, details |-> details,
     options |-> options, created_at |-> created_at]

\* One object of approvals_data.
ApprovalRecord(a) ==
    [task_id |-> a.task_id, description |-> a.description, details |-> a.details,
     options |-> a.options, created_at |-> IsoFormat(a.created_at)]

\* An approvals_data that holds the newest request only.
ApprovalsDataNewest(pending) ==
    <<ApprovalRecord(pending[Len(pending)])>>

\* approvals_data: one object per pending approval, in list order.
ApprovalsData(pending) ==
    [k \in 1..Len(pending) |-> ApprovalRecord(pending[k])]

\* pending_approvals.json: absent, holding a JSON list, or cut short by a
\* failed write.
NoFile == [state |-> "absent", records |-> <<>>]
JsonFile(records) == [state |-> "json", records |-> records]
TruncatedFile == [state |-> "truncated", records |-> <<>>]

\* What the disk allows: "ok"; "open_fails" (open raises OSError, the file
\* is untouched); "write_fails" (open has truncated the file, then writing
\* raises OSError).
WriteOutcomes == {"ok", "open_fails", "write_fails"}

\* A write that adds the newest record to what the file already holds.
WriteFileMerging(file, approvals_data, w) ==
    CASE w = "ok" -> JsonFile(file.records \o <<approvals_data[Len(approvals_data)]>>)
      [] w = "open_fails" -> file
      [] OTHER -> TruncatedFile

\* with open(approvals_file, "w") as f: json.dump(approvals_data, f, indent=2)
WriteFile(file, approvals_data, w) ==
    CASE w = "ok" -> JsonFile(approvals_data)
      [] w = "open_fails" -> file
      [] OTHER -> TruncatedFile

\* A file left in the output directory by an earlier run.
StaleRecord ==
    ApprovalRecord(ApprovalRequest(TaskId(Time(0, 0)), "old", "details",
                                   DefaultOptions, Time(0, 0)))
PriorFiles == {NoFile, JsonFile(<<StaleRecord>>)}

\* ------------------------------------------------------------------ state
VARIABLES
    calls,          \* the run_task / resume_task calls made so far, in issue order
    task_history,   \* task_history of each agent
    notifications,  \* what each agent's notifier was asked to send, in order
    uuids,          \* how many ids uuid.uuid4() has produced
    policy,         \* the state of the optional permissions module
    pending_approvals,  \* pending_approvals of each agent
    approvals_file,     \* <output_dir>/pending_approvals.json
    clock,              \* the last reading of datetime.now()
    approval_calls,     \* the request_approval calls made so far, in order
    resolver_config,    \* the config of the agent whose resolver is exercised
    resolved,           \* what its _get_permission_flags calls gave, in order
    deploys             \* the deploy_containers calls made so far, in order

taskVars == <<calls, task_history, uuids, policy>>
approvalVars == <<pending_approvals, approvals_file, clock, approval_calls>>
resolverVars == <<resolver_config, resolved>>
vars == <<calls, task_history, notifications, uuids, policy,
          pending_approvals, approvals_file, clock, approval_calls,
          resolver_config, resolved, deploys>>

\* A TaskResult slot of a call that has not returned one.
NoResult == TaskResult(FALSE, PyNone, NoSession, FALSE, <<>>)

\* str(uuid.uuid4()): an id no earlier call of uuid4 produced.
Uuid4(n) == n + 1

\* A session id computed once and shared by every call.
RunSessionIdFixed(n) == Uuid4(0)

\* The session id run_task works with.
RunSessionId(n) == Uuid4(n)

\* A resume that starts a session of its own.
ResumeSessionIdFresh(given, n) == Uuid4(n)

\* The session id resume_task works with: its argument.
ResumeSessionId(given, n) == given

\* The engine command line of run_task.
RunCmd(session_id, flags) ==
    [mode |-> "--session-id", session_id |-> session_id,
     output_format |-> "json", system_prompt |-> <<"system_prompt", "BLOCKED_INSTRUCTION">>,
     flags |-> flags, input |-> "prompt"]

\* The engine command line of resume_task.
ResumeCmd(session_id, flags) ==
    [mode |-> "--resume", session_id |-> session_id,
     output_format |-> "json", system_prompt |-> <<>>,
     flags |-> flags, input |-> "answer"]

NoCmd ==
    [mode |-> "", session_id |-> NoSession, output_format |-> "",
     system_prompt |-> <<>>, flags |-> <<>>, input |-> ""]

\* ------------------------------------------------------- engine outcomes
Envelope(text) == EnvelopeOpen \o text \o EnvelopeClose

OkText == <<"o", "k">>
ErrText == <<"e", "r", "r">>
QuestionText == <<"o", "k", " ">> \o BLOCKED_MARKER \o <<" ", "q", "?">>

\* What subprocess.run met: kind is "exit" (a CompletedProcess with
\* returncode, stdout, stderr), "timeout" (TimeoutExpired), "launch_error"
\* (another exception, stderr holding its text) or "none" (not yet known).
Outcome(kind, returncode, stdout, stderr) ==
    [kind |-> kind, returncode |-> returncode, stdout |-> stdout, stderr |-> stderr]

ExitOutcome(returncode, stdout, stderr) == Outcome("exit", returncode, stdout, stderr)
TimeoutOutcome == Outcome("timeout", 0, <<>>, <<>>)
LaunchErrorOutcome(text) == Outcome("launch_error", 0, <<>>, text.v)
NoOutcome == Outcome("none", 0, <<>>, <<>>)

\* What an engine process that exits can leave: exit code, stdout, stderr.
ExitOutcomes ==
    { ExitOutcome(0, <<>>, <<>>),
      ExitOutcome(0, OkText, <<>>),
      ExitOutcome(0, Envelope(OkText), <<>>),
      ExitOutcome(0, Envelope(QuestionText), ErrText),
      ExitOutcome(0, EmptyArray, <<>>),
      ExitOutcome(0, EnvelopeNull, <<>>),
      ExitOutcome(1, Envelope(OkText), ErrText),
      ExitOutcome(1, QuestionText, <<>>),
      ExitOutcome(1, EnvelopeNull, <<>>),
      ExitOutcome(1, EmptyArray, ErrText) }

\* str(e) of the exception subprocess.run raises when the launch fails.
LaunchErrors == {ExcText("FileNotFoundError"), ExcText("PermissionError")}

\* Session ids a caller can hand to resume_task: those of the results it
\* was given, and an id no dispatch ever produced.
StaleSids == {MaxCalls + 1}

ReturnedSids == {calls[i].returned.session_id : i \in {j \in 1..Len(calls) : calls[j].pc = "returned"}}

\* ---------------------------------------------------------------- actions
Init ==
    /\ calls = <<>>
    /\ task_history = [a \in Agents |-> <<>>]
    /\ notifications = [a \in Agents |-> <<>>]
    /\ uuids = 0
    /\ policy \in PolicyStates
    /\ pending_approvals = [a \in Agents |-> <<>>]
    /\ approvals_file = NoFile
    /\ clock = Time(0, 0)
    /\ approval_calls = <<>>
    /\ resolver_config = Config("shelly")
    /\ resolved = <<>>
    /\ deploys = <<>>

\* The effect (returned, appended, notes) of a call's body on agent a.
Apply(a, effect) ==
    /\ task_history' = [task_history EXCEPT ![a] = @ \o effect.appended]
    /\ notifications' = [notifications EXCEPT ![a] = @ \o effect.notes]

\* Session id sid is stale now: no call so far was made on it, or a
\* resume_task on it has already returned a completed, non-blocked result.
StaleSession(sid) ==
    \/ \A j \in 1..Len(calls) : calls[j].session_id # sid
    \/ \E j \in 1..Len(calls) :
          /\ calls[j].kind = "resume" /\ calls[j].session_id = sid
          /\ calls[j].pc = "returned"
          /\ calls[j].returned.success /\ ~calls[j].returned.blocked

\* A call record: kind is "run" or "resume"; pc is "waiting" (inside
\* subprocess.run), "returned" or "raised"; proc is the engine process.
\* trace is what the call itself has done so far, in order; stale tells
\* whether a resume_task was handed a session id that was stale when the
\* call was made.
Call(a, kind, given, session_id, pc, proc, cmd, outcome, returned, trace) ==
    [agent |-> a, kind |-> kind, given |-> given, session_id |-> session_id,
     pc |-> pc, proc |-> proc, cmd |-> cmd, outcome |-> outcome, returned |-> returned,
     trace |-> trace, stale |-> kind = "resume" /\ StaleSession(given)]

\* The steps of a call's trace: one notifier.notify call, one subprocess.run.
NoteStep(note) == [step |-> "notify", note |-> note]
LaunchStep == [step |-> "launch", note |-> Note("", "")]
NoteSteps(notes) == [k \in 1..Len(notes) |-> NoteStep(notes[k])]

\* A Begin that launches the engine a second time when the launch fails.
BeginRetry(a, kind, given, session_id, cmd, startNote) ==
    LET pf == GetPermissionFlags(a, policy) IN
    IF pf.exc # ""
    THEN /\ calls' = Append(calls, Call(a, kind, given, session_id, "raised", "none", NoCmd,
                                        NoOutcome, NoResult, <<NoteStep(startNote)>>))
         /\ Apply(a, [appended |-> <<>>, notes |-> <<startNote>>])
    ELSE \/ /\ calls' = Append(calls, Call(a, kind, given, session_id, "waiting", "running",
                                           cmd, NoOutcome, NoResult,
                                           <<NoteStep(startNote), LaunchStep>>))
            /\ Apply(a, [appended |-> <<>>, notes |-> <<startNote>>])
         \/ \E text \in LaunchErrors :
              LET e == LaunchFailed(session_id, text) IN
              /\ calls' = Append(calls, Call(a, kind, given, session_id, "returned", e.proc,
                                             cmd, LaunchErrorOutcome(text), e.returned,
                                             <<NoteStep(startNote), LaunchStep, LaunchStep>>
                                                 \o NoteSteps(e.notes)))
              /\ Apply(a, [appended |-> e.appended, notes |-> <<startNote>> \o e.notes])

\* A call up to its subprocess.run, made by a handler that has already
\* sent the notifications `before`: the start notification, the permission
\* flags (an exception here leaves the call), then the launch, which either
\* fails (the call returns an error result) or leaves the call waiting.
BeginAfter(before, a, kind, given, session_id, cmd, startNote) ==
    LET pf == GetPermissionFlags(a, policy) IN
    IF pf.exc # ""
    THEN /\ calls' = Append(calls, Call(a, kind, given, session_id, "raised", "none", NoCmd,
                                        NoOutcome, NoResult, <<NoteStep(startNote)>>))
         /\ Apply(a, [appended |-> <<>>, notes |-> before \o <<startNote>>])
    ELSE \/ /\ calls' = Append(calls, Call(a, kind, given, session_id, "waiting", "running",
                                           cmd, NoOutcome, NoResult,
                                           <<NoteStep(startNote), LaunchStep>>))
            /\ Apply(a, [appended |-> <<>>, notes |-> before \o <<startNote>>])
         \/ \E text \in LaunchErrors :
              LET e == LaunchFailed(session_id, text) IN
              /\ calls' = Append(calls, Call(a, kind, given, session_id, "returned", e.proc,
                                             cmd, LaunchErrorOutcome(text), e.returned,
                                             <<NoteStep(startNote), LaunchStep>>
                                                 \o NoteSteps(e.notes)))
              /\ Apply(a, [appended |-> e.appended,
                           notes |-> before \o <<startNote>> \o e.notes])

\* A call made directly: nothing was sent before its start notification.
Begin(a, kind, given, session_id, cmd, startNote) ==
    BeginAfter(<<>>, a, kind, given, session_id, cmd, startNote)

\* run_task(prompt) on agent a, up to the engine wait.
RunTask(a) ==
    /\ Len(calls) < MaxCalls
    /\ LET session_id == RunSessionId(uuids) IN
       Begin(a, "run", NoSession, session_id,
             RunCmd(session_id, GetPermissionFlags(a, policy).flags), Note("info", "start"))
    /\ uuids' = uuids + 1
    /\ UNCHANGED policy
    /\ UNCHANGED approvalVars
    /\ UNCHANGED resolverVars
    /\ UNCHANGED deploys

\* resume_task(session_id, answer) on agent a, up to the engine wait.
ResumeTask(a, given) ==
    /\ Len(calls) < MaxCalls
    /\ LET session_id == ResumeSessionId(given, uuids) IN
       Begin(a, "resume", given, session_id,
             ResumeCmd(session_id, GetPermissionFlags(a, policy).flags), Note("info", "start"))
    /\ UNCHANGED <<uuids, policy>>
    /\ UNCHANGED approvalVars
    /\ UNCHANGED resolverVars
    /\ UNCHANGED deploys

\* The rest of call c once its effect is known.
Finish(c, outcome, effect) ==
    /\ calls' = [calls EXCEPT ![c].pc = "returned", ![c].proc = effect.proc,
                              ![c].outcome = outcome, ![c].returned = effect.returned,
                              ![c].trace = @ \o NoteSteps(effect.notes)]
    /\ Apply(calls[c].agent, effect)
    /\ UNCHANGED <<uuids, policy>>
    /\ UNCHANGED approvalVars
    /\ UNCHANGED resolverVars
    /\ UNCHANGED deploys

\* The engine of call c exits; the call runs to its return.
EngineExit(c, o) ==
    /\ calls[c].pc = "waiting"
    /\ Finish(c, o, Complete(calls[c].session_id, o.returncode, o.stdout, o.stderr))

\* The engine of call c outlives the timeout: subprocess.run kills it and
\* raises TimeoutExpired; the call runs to its return.
EngineTimeout(c) ==
    /\ calls[c].pc = "waiting"
    /\ Finish(c, TimeoutOutcome, TimedOut(calls[c].session_id))

Next ==
    \/ \E a \in Agents : RunTask(a)
    \/ \E a \in Agents : \E given \in ReturnedSids \cup StaleSids : ResumeTask(a, given)
    \/ \E c \in 1..Len(calls) : \E o \in ExitOutcomes : EngineExit(c, o)
    \/ \E c \in 1..Len(calls) : EngineTimeout(c)

Spec == Init /\ [][Next]_vars

\* ------------------------------------------- one call, many output texts
\* SpecClassify: a single run_task or resume_task call whose engine exits
\* with an output text assembled from up to MaxPieces pieces: the marker,
\* the start of the marker, a letter and a space, in any order, printed
\* raw or inside a JSON envelope.
Pieces == {BLOCKED_MARKER, <<"A", "G", "E", "N", "T">>, <<"q">>, <<" ">>}

RECURSIVE TextsUpTo(_)
TextsUpTo(n) ==
    IF n = 0 THEN {<<>>}
    ELSE LET shorter == TextsUpTo(n - 1) IN
         shorter \cup {t \o p : t \in shorter, p \in Pieces}

ClassifyTexts == TextsUpTo(MaxPieces)

\* What the engine leaves on stderr: nothing, or a text with the marker.
ClassifyStderr == {<<>>, BLOCKED_MARKER \o <<"q">>}

ClassifyOutcomes ==
    {ExitOutcome(rc, out, err) :
        rc \in {0, 1},
        out \in ClassifyTexts \cup {Envelope(t) : t \in ClassifyTexts},
        err \in ClassifyStderr}

InitClassify == Init /\ policy = "absent"

NextClassify ==
    \/ \E a \in Agents : Len(calls) = 0 /\ RunTask(a)
    \/ \E a \in Agents : \E given \in StaleSids : Len(calls) = 0 /\ ResumeTask(a, given)
    \/ \E c \in 1..Len(calls) : \E o \in ClassifyOutcomes : EngineExit(c, o)
    \/ \E c \in 1..Len(calls) : EngineTimeout(c)

SpecClassify == InitClassify /\ [][NextClassify]_vars

\* ------------------------------------------------------- request_approval
\* The arguments request_approval is called with.
Descriptions == {"deploy", "delete"}
OptionInputs == {PyNone, PyList(<<>>), PyList(<<"Yes", "No">>)}

\* One request_approval call: its arguments, the request it created and the
\* exception it raised ("" when it returned the request).
ApprovalCall(a, options, request, raised) ==
    [agent |-> a, options |-> options, request |-> request, raised |-> raised]

\* A request_approval that appends the request only once it is written.
RequestApprovalWriteFirst(a, description, details, options, t1, t2, w) ==
    LET request == ApprovalRequest(TaskId(t1), description, details,
                                   EffectiveOptions(options), t2)
        pending == Append(pending_approvals[a], request)
    IN  /\ Len(approval_calls) < MaxApprovals
        /\ pending_approvals' =
              IF w = "ok" THEN [pending_approvals EXCEPT ![a] = pending]
              ELSE pending_approvals
        /\ approvals_file' = WriteFile(approvals_file, ApprovalsData(pending), w)
        /\ notifications' =
              IF w = "ok"
              THEN [notifications EXCEPT ![a] = Append(@, Note("approval", "approval_needed"))]
              ELSE notifications
        /\ approval_calls' =
              Append(approval_calls,
                     ApprovalCall(a, options, request, IF w = "ok" THEN "" ELSE "OSError"))
        /\ clock' = t2
        /\ UNCHANGED taskVars
        /\ UNCHANGED resolverVars
        /\ UNCHANGED deploys

\* request_approval(description, details, options) on agent a; t1 and t2
\* are its two readings of datetime.now(), w what the disk allows.  The
\* body has no suspension point before its final notify.
RequestApproval(a, description, details, options, t1, t2, w) ==
    LET request == ApprovalRequest(TaskId(t1), description, details,
                                   EffectiveOptions(options), t2)
        pending == Append(pending_approvals[a], request)
    IN  /\ Len(approval_calls) < MaxApprovals
        /\ pending_approvals' = [pending_approvals EXCEPT ![a] = pending]
        /\ approvals_file' = WriteFile(approvals_file, ApprovalsData(pending), w)
        /\ notifications' =
              IF w = "ok"
              THEN [notifications EXCEPT ![a] = Append(@, Note("approval", "approval_needed"))]
              ELSE notifications
        /\ approval_calls' =
              Append(approval_calls,
                     ApprovalCall(a, options, request, IF w = "ok" THEN "" ELSE "OSError"))
        /\ clock' = t2
        /\ UNCHANGED taskVars
        /\ UNCHANGED resolverVars
        /\ UNCHANGED deploys

InitApproval ==
    /\ calls = <<>>
    /\ task_history = [a \in Agents |-> <<>>]
    /\ notifications = [a \in Agents |-> <<>>]
    /\ uuids = 0
    /\ policy = "absent"
    /\ pending_approvals = [a \in Agents |-> <<>>]
    /\ approvals_file \in PriorFiles
    /\ clock = Time(0, 0)
    /\ approval_calls = <<>>
    /\ resolver_config = Config("shelly")
    /\ resolved = <<>>
    /\ deploys = <<>>

NextApproval ==
    \E a \in Agents : \E description \in Descriptions : \E options \in OptionInputs :
        \E t1 \in Now(clock) : \E t2 \in Now(t1) : \E w \in WriteOutcomes :
            RequestApproval(a, description, "details", options, t1, t2, w)

SpecApproval == InitApproval /\ [][NextApproval]_vars

\* ------------------------------------------------ _get_permission_flags
\* The configs the resolver is exercised with: agent names in several
\* spellings and project roots of zero, one and two components.
ConfigNames ==
    { ShellyName, <<"S", "H", "E", "L", "L", "Y">>, <<"s", "h", "e", "l", "l", "y">>,
      <<"s", "h", "e", "l", "l", "Y">>, <<"S", "h", "e", "l", "l">>, QuinnName }
ConfigRoots == { DefaultRoot, <<"app">>, <<"apps", "web">> }

\* One self._get_permission_flags() call on resolver_config.
Resolve ==
    /\ resolved = <<>>
    /\ resolved' = Append(resolved, PermissionFlags(resolver_config, policy))
    /\ UNCHANGED <<taskVars, notifications, approvalVars, resolver_config, deploys>>

InitResolve ==
    /\ calls = <<>>
    /\ task_history = [a \in Agents |-> <<>>]
    /\ notifications = [a \in Agents |-> <<>>]
    /\ uuids = 0
    /\ policy \in PolicyStates
    /\ pending_approvals = [a \in Agents |-> <<>>]
    /\ approvals_file = NoFile
    /\ clock = Time(0, 0)
    /\ approval_calls = <<>>
    /\ resolver_config \in [name : ConfigNames, project_root : ConfigRoots]
    /\ resolved = <<>>
    /\ deploys = <<>>

NextResolve == Resolve

SpecResolve == InitResolve /\ [][NextResolve]_vars

\* ------------------------------------------- calls with a slow notifier
\* The macOS channel of the notifier (enabled by default) runs osascript
\* with subprocess.run and no timeout, inside notify: a call that has left
\* the engine wait is at pc "notifying" until the channel returns, and
\* returns its result after that.
LiveOutcomes ==
    { ExitOutcome(0, Envelope(OkText), <<>>),
      ExitOutcome(0, Envelope(QuestionText), ErrText),
      ExitOutcome(0, EmptyArray, <<>>),
      ExitOutcome(1, Envelope(OkText), ErrText) }

\* What call c does after the engine wait that ended with outcome o.
EffectOf(c, o) ==
    IF o.kind = "timeout" THEN TimedOut(calls[c].session_id)
    ELSE Complete(calls[c].session_id, o.returncode, o.stdout, o.stderr)

\* The engine wait of call c ends with outcome o (an exit, or the timeout
\* of subprocess.run); the call enters the notifier.
EngineDone(c, o) ==
    /\ calls[c].pc = "waiting"
    /\ calls' = [calls EXCEPT ![c].pc = "notifying", ![c].outcome = o,
                              ![c].proc = EffectOf(c, o).proc]
    /\ UNCHANGED <<task_history, notifications, uuids, policy>>
    /\ UNCHANGED approvalVars
    /\ UNCHANGED resolverVars
    /\ UNCHANGED deploys

\* subprocess.run(timeout=timeout) cuts the wait of call c off.
TimeoutFires(c) ==
    /\ c \in 1..Len(calls)
    /\ EngineDone(c, TimeoutOutcome)

\* The notifier's channel returns; call c runs to its return.
ChannelReturns(c) ==
    /\ calls[c].pc = "notifying"
    /\ Finish(c, calls[c].outcome, EffectOf(c, calls[c].outcome))

InitLive == Init /\ policy \in {"absent", "func_error"}

NextLive ==
    \/ \E a \in Agents : RunTask(a)
    \/ \E a \in Agents : \E given \in ReturnedSids \cup StaleSids : ResumeTask(a, given)
    \/ \E c \in 1..Len(calls) : \E o \in LiveOutcomes : EngineDone(c, o)
    \/ \E c \in 1..Len(calls) : TimeoutFires(c)
    \/ \E c \in 1..Len(calls) : ChannelReturns(c)

\* The timeout of subprocess.run fires when the engine does not exit;
\* nothing bounds the engine's own run or the notifier's channel.
SpecLive ==
    InitLive /\ [][NextLive]_vars /\ \A c \in 1..MaxCalls : WF_vars(TimeoutFires(c))

\* ------------------------------------------- QuinnAgent.deploy_containers
\* The environment argument; only these two spellings are production.
Environments == {"production", "prod", "staging"}
ProductionNames == {"production", "prod"}

\* options=["Deploy", "Cancel", "Deploy to Staging First"]
DeployOptions == PyList(<<"Deploy", "Cancel", "Deploy to Staging First">>)

\* One deploy_containers call: approval and call are the positions of its
\* request_approval in approval_calls and of its run_task in calls (0 when
\* it made none); at_dispatch is the pending list and the file as they
\* were when run_task was entered.
Deploy(environment, approval, call, steps, pending, file) ==
    [environment |-> environment, approval |-> approval, call |-> call,
     steps |-> steps, at_dispatch |-> [pending |-> pending, file |-> file]]

\* A deploy_containers that dispatches first and asks for approval after.
DeployContainersDispatchFirst(environment, t1, t2, w) ==
    LET a == "quinn"
        production == environment \in ProductionNames
        request == ApprovalRequest(TaskId(t1), "Production deployment", "Please confirm",
                                   EffectiveOptions(DeployOptions), t2)
        pending == Append(pending_approvals[a], request)
        approved == production /\ w = "ok"
        notes == <<Note("info", "deploying")>>
        session_id == RunSessionId(uuids)
    IN  /\ Len(deploys) < MaxDeploys
        /\ IF production
           THEN /\ pending_approvals' = [pending_approvals EXCEPT ![a] = pending]
                /\ approvals_file' = WriteFile(approvals_file, ApprovalsData(pending), w)
                /\ approval_calls' =
                     Append(approval_calls,
                            ApprovalCall(a, DeployOptions, request,
                                         IF w = "ok" THEN "" ELSE "OSError"))
                /\ clock' = t2
           ELSE UNCHANGED approvalVars
        /\ BeginAfter(notes, a, "run", NoSession, session_id,
                      RunCmd(session_id, GetPermissionFlags(a, policy).flags),
                      Note("info", "start"))
        /\ uuids' = uuids + 1
        /\ deploys' =
             Append(deploys,
                    Deploy(environment,
                           IF production THEN Len(approval_calls) + 1 ELSE 0,
                           Len(calls) + 1,
                           <<"notify", "run_task">>
                               \o (IF production THEN <<"request_approval">> ELSE <<>>),
                           pending_approvals[a], approvals_file))
        /\ UNCHANGED policy
        /\ UNCHANGED resolverVars

\* deploy_containers(compose_file, environment) on the quinn agent, up to
\* the engine wait of its run_task; t1, t2 and w are the clock readings and
\* the disk outcome of request_approval, used for a production deployment
\* only.  A failed write leaves the method by OSError before run_task.
DeployContainers(environment, t1, t2, w) ==
    LET a == "quinn"
        production == environment \in ProductionNames
        request == ApprovalRequest(TaskId(t1), "Production deployment", "Please confirm",
                                   EffectiveOptions(DeployOptions), t2)
        pending == Append(pending_approvals[a], request)
        file == WriteFile(approvals_file, ApprovalsData(pending), w)
        approved == production /\ w = "ok"
        raised == production /\ w # "ok"
        notes == <<Note("info", "deploying")>>
                     \o (IF approved THEN <<Note("approval", "approval_needed")>> ELSE <<>>)
        session_id == RunSessionId(uuids)
    IN  /\ Len(deploys) < MaxDeploys
        /\ IF production
           THEN /\ pending_approvals' = [pending_approvals EXCEPT ![a] = pending]
                /\ approvals_file' = file
                /\ approval_calls' =
                     Append(approval_calls,
                            ApprovalCall(a, DeployOptions, request,
                                         IF w = "ok" THEN "" ELSE "OSError"))
                /\ clock' = t2
           ELSE UNCHANGED approvalVars
        /\ IF raised
           THEN /\ notifications' = [notifications EXCEPT ![a] = @ \o notes]
                /\ UNCHANGED <<calls, task_history, uuids>>
           ELSE /\ BeginAfter(notes, a, "run", NoSession, session_id,
                              RunCmd(session_id, GetPermissionFlags(a, policy).flags),
                              Note("info", "start"))
                /\ uuids' = uuids + 1
        /\ deploys' =
             Append(deploys,
                    Deploy(environment,
                           IF production THEN Len(approval_calls) + 1 ELSE 0,
                           IF raised THEN 0 ELSE Len(calls) + 1,
                           <<"notify">>
                               \o (IF production THEN <<"request_approval">> ELSE <<>>)
                               \o (IF raised THEN <<>> ELSE <<"run_task">>),
                           IF production THEN pending ELSE pending_approvals[a],
                           IF production THEN file ELSE approvals_file))
        /\ UNCHANGED policy
        /\ UNCHANGED resolverVars

InitDeploy == Init /\ policy = "absent"

NextDeploy ==
    \/ \E environment \in Environments :
          \E t1 \in Now(clock) : \E t2 \in Now(t1) : \E w \in WriteOutcomes :
              DeployContainers(environment, t1, t2, w)
    \/ \E c \in 1..Len(calls) : \E o \in LiveOutcomes : EngineExit(c, o)
    \/ \E c \in 1..Len(calls) : EngineTimeout(c)

SpecDeploy == InitDeploy /\ [][NextDeploy]_vars

\* ------------------------------------------------------------ properties
\* The calls that have returned a TaskResult, and those whose engine exited
\* (cleanly: with code 0).
Returned == {i \in 1..Len(calls) : calls[i].pc = "returned"}
Exits == {i \in Returned : calls[i].outcome.kind = "exit"}
CleanExits == {i \in Exits : calls[i].outcome.returncode = 0}

\* The offsets at which the marker occurs in a text, and the last of them.
Offsets(s) == {i \in 0..Len(s) : OccursAt(s, BLOCKED_MARKER, i)}
LastOffset(s) == CHOOSE i \in Offsets(s) : \A j \in Offsets(s) : j <= i

\* The text that follows the marker occurring at offset i.
TailAfter(s, i) == SubSeq(s, i + Len(BLOCKED_MARKER) + 1, Len(s))

AllSpace(s) == \A k \in 1..Len(s) : IsSpace(s[k])

\* t is s without its leading and trailing whitespace.
IsTrimOf(t, s) ==
    \E a \in 0..Len(s) : \E b \in a..Len(s) :
        /\ t = SubSeq(s, a + 1, b)
        /\ AllSpace(SubSeq(s, 1, a))
        /\ AllSpace(SubSeq(s, b + 1, Len(s)))
        /\ (t # <<>> => ~IsSpace(t[1]) /\ ~IsSpace(t[Len(t)]))

\* The session id a call was made for: the one run_task generated, or the
\* one resume_task was given.
CallSid(i) == IF calls[i].kind = "resume" THEN calls[i].given ELSE calls[i].session_id

RunCalls == {i \in 1..Len(calls) : calls[i].kind = "run"}
ResumeCalls == {i \in 1..Len(calls) : calls[i].kind = "resume"}

\* C1: run_task and resume_task never raise: whatever the engine, the
\* permission resolver and the notifier do, the call returns a TaskResult
\* (no call ends with an exception leaving it).
CexC1_NeverRaises == \A i \in 1..Len(calls) : calls[i].pc # "raised"

\* C2: a returned result has success = true exactly when the engine exited
\* with code 0 and the output was not classified as blocked.
CexC2_SuccessIffCleanUnblocked ==
    \A i \in Returned :
        calls[i].returned.success <=>
            /\ calls[i].outcome.kind = "exit"
            /\ calls[i].outcome.returncode = 0
            /\ ~calls[i].returned.blocked

\* C3: every TaskResult returned by run_task or resume_task carries a
\* non-empty session_id, on timeout, launch failure and non-zero exit too.
ThmC3_SessionIdPresent ==
    \A i \in Returned : calls[i].returned.session_id # NoSession

\* C3 witness: a call that timed out and a call whose launch failed have
\* both returned a result with a session id.
WitC3_FailuresCarrySid ==
    \E i \in Returned : \E j \in Returned :
        /\ calls[i].outcome.kind = "timeout"
        /\ calls[j].outcome.kind = "launch_error"
        /\ calls[i].returned.session_id # NoSession
        /\ calls[j].returned.session_id # NoSession

\* C4: no two run_task calls, on one agent or on several, are given the
\* same session id.
ThmC4_FreshSessionIds ==
    \A i \in RunCalls : \A j \in RunCalls :
        i # j => calls[i].session_id # calls[j].session_id

\* C4 witness: two dispatches on different agents, each with its own id.
WitC4_TwoDispatches ==
    \E i \in RunCalls : \E j \in RunCalls :
        /\ calls[i].agent # calls[j].agent
        /\ calls[i].session_id # calls[j].session_id

\* C5: resume_task hands the session id it was given to the engine and
\* returns it in its result, unchanged; a resume generates no id, so every
\* id a resume carries, unless it was made up by the caller, is the id an
\* earlier dispatch generated.
ThmC5_ResumeKeepsSessionId ==
    /\ \A i \in ResumeCalls :
        /\ calls[i].session_id = calls[i].given
        /\ calls[i].pc # "raised" =>
              calls[i].cmd.mode = "--resume" /\ calls[i].cmd.session_id = calls[i].given
        /\ calls[i].pc = "returned" => calls[i].returned.session_id = calls[i].given
        /\ calls[i].given \notin StaleSids =>
              \E j \in RunCalls : j < i /\ calls[j].session_id = calls[i].given
    /\ uuids = Cardinality(RunCalls)

\* C5 witness: a dispatch came back blocked, was resumed with its session
\* id, and the resume came back blocked again under the same id.
WitC5_BlockedResumeSameSid ==
    \E i \in RunCalls : \E j \in ResumeCalls :
        /\ i \in Returned /\ j \in Returned
        /\ calls[i].returned.blocked /\ calls[j].returned.blocked
        /\ calls[j].given = calls[i].returned.session_id
        /\ calls[j].returned.session_id = calls[i].session_id
        /\ calls[j].cmd.session_id = calls[i].session_id

\* C6 (P1): on a clean exit, an output text in which the marker is followed
\* by non-empty text is classified blocked, and blocker_question is that
\* text (what follows the last marker) without its surrounding whitespace,
\* whatever precedes the marker.
ThmC6_SentinelDetected ==
    \A i \in CleanExits :
        LET r == calls[i].returned IN
        (/\ r.output.t = "str"
         /\ Offsets(r.output.v) # {}
         /\ TailAfter(r.output.v, LastOffset(r.output.v)) # <<>>)
        => /\ r.blocked
           /\ IsTrimOf(r.blocker_question, TailAfter(r.output.v, LastOffset(r.output.v)))

\* C6 witness: a clean exit whose output has text before the marker and,
\* after it, a space and a question.
WitC6_QuestionAfterLeadingText ==
    \E i \in CleanExits :
        LET r == calls[i].returned IN
        /\ r.output.t = "str"
        /\ Offsets(r.output.v) # {}
        /\ LastOffset(r.output.v) > 0
        /\ TailAfter(r.output.v, LastOffset(r.output.v)) = <<" ", "q">>
        /\ r.blocked
        /\ r.blocker_question = <<"q">>

\* C7 (P2): an output text that does not contain the marker is classified
\* blocked = false with blocker_question = "".
ThmC7_NoFalsePositive ==
    \A i \in Exits :
        LET r == calls[i].returned IN
        (r.output.t = "str" /\ Offsets(r.output.v) = {})
        => ~r.blocked /\ r.blocker_question = <<>>

\* C7 witness: a clean exit whose output holds the start of the marker but
\* not the marker, returned as an unblocked success.
WitC7_NearMissNotBlocked ==
    \E i \in CleanExits :
        LET r == calls[i].returned IN
        /\ r.output = PyStr(<<"A", "G", "E", "N", "T", " ", "q">>)
        /\ ~r.blocked /\ r.blocker_question = <<>> /\ r.success

\* C8 (P3): when the marker occurs more than once, blocker_question is the
\* trimmed text after the last occurrence; it holds nothing of what lies
\* between the markers, and no marker.
ThmC8_LastOccurrence ==
    \A i \in CleanExits :
        LET r == calls[i].returned IN
        (r.output.t = "str" /\ Cardinality(Offsets(r.output.v)) >= 2)
        => /\ r.blocked
           /\ IsTrimOf(r.blocker_question, TailAfter(r.output.v, LastOffset(r.output.v)))
           /\ ~StrContains(r.blocker_question, BLOCKED_MARKER)

\* C8 witness: two markers with text between them and a question after the
\* second; the question alone is extracted.
WitC8_TwoMarkers ==
    \E i \in CleanExits :
        LET r == calls[i].returned IN
        /\ r.output = PyStr(BLOCKED_MARKER \o <<"A", "G", "E", "N", "T">> \o BLOCKED_MARKER \o <<"q">>)
        /\ r.blocked
        /\ r.blocker_question = <<"q">>

\* C9: when nothing, or only whitespace, follows the (last) marker, a clean
\* exit is still classified blocked, with blocker_question = "" and
\* success = false.
ThmC9_EmptyQuestionStillBlocked ==
    \A i \in CleanExits :
        LET r == calls[i].returned IN
        (/\ r.output.t = "str"
         /\ Offsets(r.output.v) # {}
         /\ AllSpace(TailAfter(r.output.v, LastOffset(r.output.v))))
        => r.blocked /\ r.blocker_question = <<>> /\ ~r.success

\* C9 witness: an output that ends with the marker, and one that ends with
\* the marker and a space, each returned blocked with an empty question.
WitC9_MarkerAtEnd ==
    \E i \in CleanExits :
        LET r == calls[i].returned IN
        /\ r.output.t = "str"
        /\ Offsets(r.output.v) # {}
        /\ TailAfter(r.output.v, LastOffset(r.output.v)) \in {<<>>, <<" ">>}
        /\ r.blocked /\ r.blocker_question = <<>> /\ ~r.success

\* C10: a call whose engine outlives the timeout returns success = false,
\* blocked = false, the fixed output "Task timed out" and the call's session
\* id, and once it has returned its engine process is not running.
ThmC10_TimeoutContract ==
    \A i \in Returned :
        /\ calls[i].proc # "running"
        /\ calls[i].outcome.kind = "timeout" =>
              /\ calls[i].returned =
                    TaskResult(FALSE, PyStr(TimedOutText), CallSid(i), FALSE, <<>>)
              /\ CallSid(i) # NoSession

\* C10 witness: a run_task call and a resume_task call have both timed out
\* and returned, their engines killed.
WitC10_BothTimedOut ==
    \E i \in RunCalls : \E j \in ResumeCalls :
        /\ i \in Returned /\ j \in Returned
        /\ calls[i].outcome.kind = "timeout" /\ calls[j].outcome.kind = "timeout"
        /\ calls[i].proc = "killed" /\ calls[j].proc = "killed"
        /\ calls[i].returned.output = PyStr(TimedOutText)
        /\ calls[j].returned.output = PyStr(TimedOutText)

\* C11: on a non-zero engine exit the result has success = false and its
\* output is the captured stderr when stderr is non-empty, otherwise the
\* captured stdout, verbatim.
CexC11_FailureOutput ==
    \A i \in Exits :
        calls[i].outcome.returncode # 0 =>
            /\ ~calls[i].returned.success
            /\ calls[i].returned.output =
                  IF calls[i].outcome.stderr # <<>>
                  THEN PyStr(calls[i].outcome.stderr)
                  ELSE PyStr(calls[i].outcome.stdout)

\* The clean exits whose stdout is one of the raw texts, none of which is
\* JSON.
RawCleanExits == {i \in CleanExits : calls[i].outcome.stdout \in ClassifyTexts}

\* C12: on exit code 0 with a stdout that cannot be parsed as structured
\* output, the output is the raw stdout and the result is a non-blocked
\* success.
CexC12_UnparseableIsSuccess ==
    \A i \in RawCleanExits :
        /\ calls[i].returned.output = PyStr(calls[i].outcome.stdout)
        /\ calls[i].returned.success
        /\ ~calls[i].returned.blocked

\* C12 as amended: on exit code 0 with a stdout that is not JSON, the
\* output is the raw stdout; the result is blocked exactly when the raw
\* text contains the marker, and a success exactly when it is not blocked.
ThmC12_UnparseableFallsBackToRaw ==
    \A i \in RawCleanExits :
        /\ calls[i].returned.output = PyStr(calls[i].outcome.stdout)
        /\ calls[i].returned.blocked <=> Offsets(calls[i].outcome.stdout) # {}
        /\ calls[i].returned.success <=> ~calls[i].returned.blocked

\* C12 witness: a clean exit with a non-empty stdout that is not JSON,
\* returned as a success whose output is that stdout.
WitC12_RawTextSuccess ==
    \E i \in RawCleanExits :
        /\ calls[i].outcome.stdout = <<"q", " ", "q">>
        /\ calls[i].returned.output = PyStr(<<"q", " ", "q">>)
        /\ calls[i].returned.success
        /\ ~calls[i].returned.blocked

\* C13: a parse failure is never fatal: on exit code 0, whenever stdout is
\* not an envelope with a text result (text that is not JSON, an object
\* without result, JSON that is not an object, a result that is not text),
\* the output is the raw stdout and the result is a success or blocked.
CexC13_ParseFailureNotFatal ==
    \A i \in CleanExits :
        ~IsEnvelope(Strip(calls[i].outcome.stdout)) =>
            /\ calls[i].returned.output = PyStr(calls[i].outcome.stdout)
            /\ calls[i].returned.success \/ calls[i].returned.blocked

\* The calls on agent a that have returned.
ReturnedOn(a) == {i \in Returned : calls[i].agent = a}

\* C14: every TaskResult returned by run_task or resume_task is appended
\* exactly once to the agent's task_history: the history is as long as the
\* number of completed calls, timed-out and unlaunched ones included, and
\* holds each result returned.
CexC14_HistoryHoldsEveryResult ==
    \A a \in Agents :
        /\ Len(task_history[a]) = Cardinality(ReturnedOn(a))
        /\ \A i \in ReturnedOn(a) :
              \E k \in 1..Len(task_history[a]) : task_history[a][k] = calls[i].returned

\* The positions of call i's trace holding a launch, and its start note.
Launches(i) == {k \in 1..Len(calls[i].trace) : calls[i].trace[k] = LaunchStep}
StartStep == NoteStep(Note("info", "start"))

\* The notification that matches a returned result's classification.
TerminalFor(result, note) ==
    IF result.blocked THEN note = Note("approval", "blocked")
    ELSE IF result.success THEN note = Note("info", "completed")
    ELSE note.level = "error"

\* C15: every call sends its start notification before it launches the
\* engine, and a call that has returned has sent, after the launch, a
\* notification matching its result: approval level when blocked,
\* completed when succeeded, error level when failed, timed out or not
\* launched.
ThmC15_StartAndTerminalNotes ==
    \A i \in 1..Len(calls) :
        /\ calls[i].trace[1] = StartStep
        /\ \A k \in Launches(i) : k > 1
        /\ i \in Returned =>
              \E k \in 1..Len(calls[i].trace) :
                  /\ \A l \in Launches(i) : l < k
                  /\ calls[i].trace[k].step = "notify"
                  /\ TerminalFor(calls[i].returned, calls[i].trace[k].note)
                  /\ \E n \in 1..Len(notifications[calls[i].agent]) :
                        notifications[calls[i].agent][n] = calls[i].trace[k].note

\* A blocked call and a call that exited with a failure have both returned.
WitC15_BlockedAndFailed ==
    \E i, j \in Returned :
        /\ calls[i].returned.blocked
        /\ calls[j].outcome.kind = "exit" /\ calls[j].outcome.returncode = 1
        /\ ~calls[j].returned.success
        /\ calls[j].trace[Len(calls[j].trace)].note = Note("error", "failed")

\* C16: a call launches the engine at most once, whatever its outcome:
\* exactly once when it reached subprocess.run, never when it left before.
ThmC16_SingleLaunch ==
    \A i \in 1..Len(calls) :
        /\ Cardinality(Launches(i)) <= 1
        /\ calls[i].pc # "raised" => Cardinality(Launches(i)) = 1

\* A call whose launch failed and a call that timed out, one launch each.
WitC16_LaunchErrorAndTimeout ==
    \E i, j \in Returned :
        /\ calls[i].outcome.kind = "launch_error"
        /\ calls[j].outcome.kind = "timeout"
        /\ Cardinality(Launches(i)) = 1 /\ Cardinality(Launches(j)) = 1

\* C17: the command of every engine invocation, dispatch or resume, carries
\* the system prompt with the block-detection clause appended, the call's
\* session id, the json output format and the resolved permission flags.
CexC17_EveryInvocationInstructed ==
    \A i \in 1..Len(calls) :
        Launches(i) # {} =>
            /\ calls[i].cmd.system_prompt = <<"system_prompt", "BLOCKED_INSTRUCTION">>
            /\ calls[i].cmd.session_id = calls[i].session_id
            /\ calls[i].cmd.output_format = "json"
            /\ calls[i].cmd.flags = GetPermissionFlags(calls[i].agent, policy).flags

\* The request_approval calls so far were all made by agent a.
OnlyWriter(a) ==
    \A k \in 1..Len(approval_calls) : approval_calls[k].agent = a

\* Every request_approval call so far returned its request.
AllApproved ==
    \A k \in 1..Len(approval_calls) : approval_calls[k].raised = ""

\* The datetime an isoformat text denotes.
FromIsoFormat(s) ==
    Time(s.seconds, IF s.fraction = <<>> THEN 0 ELSE s.fraction[1])

\* JSON object r holds the fields of the in-memory request q.
SameContent(r, q) ==
    /\ r.task_id = q.task_id
    /\ r.description = q.description
    /\ r.details = q.details
    /\ r.options = q.options
    /\ FromIsoFormat(r.created_at) = q.created_at

\* The file holds a JSON list matching the list in memory, in order.
FileMatches(pending) ==
    /\ approvals_file.state = "json"
    /\ Len(approvals_file.records) = Len(pending)
    /\ \A k \in 1..Len(pending) : SameContent(approvals_file.records[k], pending[k])

\* C18 (P7): when one agent alone has called request_approval N times and
\* every call succeeded, pending_approvals.json holds exactly N records,
\* in the order and with the task_id, description, details, options and
\* created_at of the agent's pending_approvals list; whatever was in the
\* file before is gone.  The file also matches the list after any
\* successful call of a sole writer that follows failed ones.
ThmC18_FileMatchesPending ==
    \A a \in Agents :
        (OnlyWriter(a) /\ approval_calls # <<>>) =>
            /\ AllApproved =>
                  /\ Len(pending_approvals[a]) = Len(approval_calls)
                  /\ Len(approvals_file.records) = Len(approval_calls)
                  /\ FileMatches(pending_approvals[a])
            /\ approval_calls[Len(approval_calls)].raised = "" =>
                  FileMatches(pending_approvals[a])

\* Two successful calls by one agent over a file left by an earlier run,
\* the two requests differing in content.
WitC18_TwoRequestsPersisted ==
    /\ OnlyWriter("quinn") /\ AllApproved
    /\ Len(approval_calls) = 2
    /\ Len(approvals_file.records) = 2
    /\ approvals_file.records[1] # approvals_file.records[2]
    /\ approvals_file.records[1].created_at.fraction = <<>>
    /\ approvals_file.records[2].created_at.fraction # <<>>
    /\ approvals_file.records[1] # StaleRecord

\* C19: the requests one agent has created have pairwise distinct task_id.
CexC19_TaskIdsDistinct ==
    \A a \in Agents :
        \A i, j \in 1..Len(pending_approvals[a]) :
            i # j => pending_approvals[a][i].task_id # pending_approvals[a][j].task_id

\* C20: every request created, in memory and in the file, has at least one
\* option, and has the default options when the caller supplied none.
CexC20_OptionsNonEmpty ==
    /\ \A k \in 1..Len(approval_calls) :
          /\ approval_calls[k].request.options # <<>>
          /\ approval_calls[k].options = PyNone =>
                approval_calls[k].request.options = DefaultOptions
    /\ \A a \in Agents : \A k \in 1..Len(pending_approvals[a]) :
          pending_approvals[a][k].options # <<>>
    /\ approvals_file.state = "json" =>
          \A k \in 1..Len(approvals_file.records) :
              approvals_file.records[k].options # <<>>

\* The request_approval calls of agent a that returned, and the last call.
ApprovedBy(a) ==
    {k \in 1..Len(approval_calls) :
        approval_calls[k].agent = a /\ approval_calls[k].raised = ""}
LastApprovalCall == approval_calls[Len(approval_calls)]

\* Record r is the file form of one of agent a's pending requests.
RecordOf(a, r) ==
    \E k \in 1..Len(pending_approvals[a]) : r = ApprovalRecord(pending_approvals[a][k])

\* C21: agents sharing an output directory share pending_approvals.json,
\* and each successful write replaces the whole file by the writer's own
\* list: after a write the file is exactly the last writer's list, whatever
\* the other agent had written before.
ThmC21_LastWriterWins ==
    (approval_calls # <<>> /\ LastApprovalCall.raised = "") =>
        approvals_file = JsonFile(ApprovalsData(pending_approvals[LastApprovalCall.agent]))

\* Both agents have written; the file holds the second writer's record and
\* the first writer's request, still pending in memory, is not in it.
WitC21_LostUpdate ==
    /\ ApprovedBy("shelly") # {} /\ ApprovedBy("quinn") # {}
    /\ LastApprovalCall.agent = "quinn"
    /\ Len(pending_approvals["shelly"]) = 1
    /\ Len(approvals_file.records) = 1
    /\ RecordOf("quinn", approvals_file.records[1])
    /\ ~RecordOf("shelly", approvals_file.records[1])

\* C22: _get_permission_flags never raises: with the policy module absent,
\* failing while it loads, or failing in its functions, the call returns
\* a flag sequence.
CexC22_ResolverNeverRaises ==
    \A k \in 1..Len(resolved) : resolved[k].exc = "" /\ resolved[k].flags # <<>>

\* Two letters are the same ignoring case.
SameLetter(c, d) ==
    \/ c = d
    \/ <<c, d>> \in {<<"S", "s">>, <<"H", "h">>, <<"E", "e">>, <<"L", "l">>, <<"Y", "y">>}
    \/ <<d, c>> \in {<<"S", "s">>, <<"H", "h">>, <<"E", "e">>, <<"L", "l">>, <<"Y", "y">>}

\* The name is the supervisor's name, ignoring case.
IsSupervisorName(name) ==
    /\ Len(name) = Len(ShellyName)
    /\ \A k \in 1..Len(name) : SameLetter(name[k], ShellyName[k])

\* C23: with the policy module loaded the resolver returns the flags of
\* the supervisor profile exactly when the agent name is the supervisor's
\* ignoring case, of the worker profile otherwise, bound to the project
\* (the last component of project_root) when project_root is not the
\* default and to no project when it is; with the module absent it
\* returns exactly [--permission-mode, acceptEdits].
ThmC23_ProfileSelection ==
    \A k \in 1..Len(resolved) :
        /\ policy = "ok" =>
              /\ resolved[k].exc = ""
              /\ resolved[k].flags[2] = "supervisor" <=> IsSupervisorName(resolver_config.name)
              /\ resolved[k].flags[2] = "worker" <=> ~IsSupervisorName(resolver_config.name)
              /\ resolver_config.project_root = <<".">> => resolved[k].flags[3] = "None"
              /\ resolver_config.project_root # <<".">> =>
                    /\ resolved[k].flags[3] # "None"
                    /\ resolved[k].flags[3] =
                          resolver_config.project_root[Len(resolver_config.project_root)]
        /\ policy = "absent" =>
              /\ resolved[k].exc = ""
              /\ resolved[k].flags = <<"--permission-mode", "acceptEdits">>

\* The resolver gave the supervisor profile, bound to a project, to an
\* agent whose name is the supervisor's in another spelling.
WitC23_UpperCaseSupervisor ==
    /\ policy = "ok"
    /\ resolver_config.name = <<"S", "H", "E", "L", "L", "Y">>
    /\ resolver_config.project_root = <<"apps", "web">>
    /\ resolved = <<[exc |-> "", flags |-> <<"policy", "supervisor", "web">>]>>

\* C24: a resume_task handed a stale session id (one no earlier call was
\* made on, or one whose session an earlier resume_task already brought to
\* a non-blocked completion) returns a failed result and launches the
\* engine at most once.
CexC24_StaleResumeFails ==
    \A i \in Returned :
        calls[i].stale =>
            /\ ~calls[i].returned.success
            /\ Cardinality(Launches(i)) <= 1

\* The calls whose engine could not be started.
LaunchErrorCalls == {i \in Returned : calls[i].outcome.kind = "launch_error"}

\* C25: when the engine cannot be started, run_task / resume_task returns
\* a result with success = false, blocked = false, no blocker question,
\* the exception text as output and the call's session id.
ThmC25_LaunchFailureResult ==
    \A i \in LaunchErrorCalls :
        /\ ~calls[i].returned.success
        /\ ~calls[i].returned.blocked
        /\ calls[i].returned.blocker_question = <<>>
        /\ calls[i].returned.output = PyStr(calls[i].outcome.stderr)
        /\ calls[i].returned.output \in LaunchErrors
        /\ calls[i].returned.session_id = CallSid(i)
        /\ calls[i].proc = "none"

\* A run_task that found no executable and a resume_task that was denied
\* permission have both returned.
WitC25_RunAndResumeLaunchErrors ==
    \E i \in LaunchErrorCalls : \E j \in LaunchErrorCalls :
        /\ calls[i].kind = "run"
        /\ calls[i].returned.output = ExcText("FileNotFoundError")
        /\ calls[j].kind = "resume"
        /\ calls[j].returned.output = ExcText("PermissionError")
        /\ calls[j].returned.session_id = calls[j].given

\* Call c returns in this step, having been made or in flight before it.
Returns(c) ==
    /\ c \in 1..Len(calls')
    /\ calls'[c].pc = "returned"
    /\ c \in 1..Len(calls) => calls[c].pc # "returned"

\* C26: task_history of an agent holds the results of its completed calls
\* in the order the calls completed, whatever the order they were issued
\* in, each exactly once: the step in which a call returns appends the
\* call's result to the end of its agent's task_history, and no other
\* step changes a task_history.
CexC26_HistoryInCompletionOrder ==
    [][/\ \A c \in 1..MaxCalls :
            Returns(c) =>
                task_history'[calls'[c].agent] =
                    Append(task_history[calls'[c].agent], calls'[c].returned)
       /\ \A a \in Agents :
            task_history'[a] # task_history[a] =>
                \E c \in 1..MaxCalls : Returns(c) /\ calls'[c].agent = a]_vars

\* C27: every call that waits on the engine leaves the wait (the engine
\* exits or is cut off at the timeout) and then returns a TaskResult.
CexC27_EveryCallReturns ==
    \A c \in 1..MaxCalls :
        (c \in 1..Len(calls) /\ calls[c].pc \in {"waiting", "notifying"})
            ~> (c \in 1..Len(calls) /\ calls[c].pc = "returned")

\* The calls that returned without a clean engine exit.
UncleanReturns ==
    {i \in Returned : calls[i].outcome.kind # "exit" \/ calls[i].outcome.returncode # 0}

\* C28: only a clean exit can be classified as blocked: the result of a
\* non-zero exit has blocked = false and an empty blocker_question even
\* when stdout or stderr holds the marker, and so have the results of a
\* timeout and of a failed launch.
ThmC28_OnlyCleanExitsBlock ==
    \A i \in UncleanReturns :
        /\ ~calls[i].returned.blocked
        /\ calls[i].returned.blocker_question = <<>>
        /\ ~calls[i].returned.success

\* A non-zero exit with the marker on stdout and on stderr has returned a
\* result whose output holds the marker.
WitC28_FailedExitWithMarker ==
    \E i \in UncleanReturns :
        /\ calls[i].outcome.kind = "exit"
        /\ Offsets(calls[i].outcome.stdout) # {}
        /\ Offsets(calls[i].outcome.stderr) # {}
        /\ calls[i].returned.output.t = "str"
        /\ Offsets(calls[i].returned.output.v) # {}
        /\ ~calls[i].returned.blocked

\* The request a production deployment created.
RequestOf(d) == approval_calls[d.approval].request

\* Request q is in the pending list and, as a JSON record, in the file.
InList(q, pending) == \E k \in 1..Len(pending) : pending[k] = q
InFile(q, file) ==
    /\ file.state = "json"
    /\ \E k \in 1..Len(file.records) : file.records[k] = ApprovalRecord(q)

\* C29: a production deployment creates one approval request, which is in
\* the pending list and in the file when run_task is entered; run_task is
\* entered as soon as request_approval has returned, and the request
\* holds no decision; a deployment to another environment creates no
\* request and goes straight to run_task.
ThmC29_ApprovalBeforeDispatch ==
    /\ \A k \in 1..Len(deploys) :
          LET d == deploys[k] IN
          IF d.environment \in {"production", "prod"}
          THEN /\ d.approval # 0
               /\ InList(RequestOf(d), pending_approvals["quinn"])
               /\ DOMAIN RequestOf(d) =
                     {"task_id", "description", "details", "options", "created_at"}
               /\ approval_calls[d.approval].raised = "" <=> d.call # 0
               /\ d.call # 0 =>
                     /\ d.steps = <<"notify", "request_approval", "run_task">>
                     /\ InList(RequestOf(d), d.at_dispatch.pending)
                     /\ InFile(RequestOf(d), d.at_dispatch.file)
                     /\ calls[d.call].kind = "run" /\ calls[d.call].agent = "quinn"
          ELSE /\ d.approval = 0
               /\ d.call # 0
               /\ d.steps = <<"notify", "run_task">>
    /\ Len(approval_calls) =
          Cardinality({k \in 1..Len(deploys) : deploys[k].environment \in {"production", "prod"}})

\* A production deployment whose engine ran to a clean exit, after a
\* staging deployment that created no request.
WitC29_ProductionDispatched ==
    /\ Len(deploys) = 2
    /\ deploys[1].environment = "staging"
    /\ deploys[2].environment = "prod"
    /\ deploys[2].call # 0
    /\ calls[deploys[2].call].pc = "returned"
    /\ calls[deploys[2].call].returned.success
    /\ Len(pending_approvals["quinn"]) = 1
    /\ Len(approvals_file.records) = 1

\* The step is a request_approval call that raised.
FailedApprovalStep ==
    /\ Len(approval_calls') = Len(approval_calls) + 1
    /\ approval_calls'[Len(approval_calls')].raised # ""

\* C30: a request_approval whose file write fails leaves by the exception
\* with the request already appended to pending_approvals, the file not
\* rewritten (left as it was, or cut short) and no notification sent.
ThmC30_NotAtomicOnError ==
    [][FailedApprovalStep =>
          LET c == approval_calls'[Len(approval_calls')] IN
          /\ c.raised = "OSError"
          /\ pending_approvals'[c.agent] = Append(pending_approvals[c.agent], c.request)
          /\ approvals_file' \in {approvals_file, TruncatedFile}
          /\ notifications' = notifications]_vars

\* A first request_approval failed at open: the request is pending in
\* memory, there is no file, and nothing was notified.
WitC30_PendingButNotPersisted ==
    /\ Len(approval_calls) = 1
    /\ approval_calls[1].raised = "OSError"
    /\ approval_calls[1].agent = "quinn"
    /\ pending_approvals["quinn"] = <<approval_calls[1].request>>
    /\ approvals_file = NoFile
    /\ notifications["quinn"] = <<>>

====
